---- MODULE Spec2Model ----
(***************************************************************************)
(* State-machine model of scanner-lambda/lambda_function.py: one           *)
(* invocation of lambda_handler, stepping through target resolution,       *)
(* credential retrieval, metadata fetch, the QScanner subprocess and the   *)
(* result sink.  Collaborators (Secrets Manager, STS, Lambda API, the      *)
(* subprocess, S3, SNS) answer nondeterministically at the moment they are *)
(* called.                                                                 *)
(*                                                                         *)
(* Python values: a str is a TLA+ string, a dict is a function whose       *)
(* DOMAIN is its key set, None is the string "None" (what str(None) and an *)
(* f-string produce); no input string of the model equals "None".          *)
(***************************************************************************)
EXTENDS Integers, Sequences, FiniteSets, TLC

VARIABLES event, environ, SCAN_TIMEOUT, cache, now, pc, function_arn, qualys_creds,
          lambda_details, result, scan_results, response, trace,
          subprocess_calls, s3_objects, sns_messages, secret, assumed_role

vars == <<event, environ, SCAN_TIMEOUT, cache, now, pc, function_arn, qualys_creds,
          lambda_details, result, scan_results, response, trace,
          subprocess_calls, s3_objects, sns_messages, secret, assumed_role>>

\* ------------------------------------------------------------------ bounds
CacheTTL == 2
MaxElapsed == 1
MaxExitCode == 2
MaxDigits == 9

\* ------------------------------------------------------- program constants
QSCANNER_PATH == "/opt/qscanner"
DefaultRegion == "us-east-1"

\* ------------------------------------------------------------ Python values
PyNone == "None"
EmptyDict == [k \in {} |-> ""]
Has(d, k) == k \in DOMAIN d
Get(d, k, default) == IF k \in DOMAIN d THEN d[k] ELSE default
TruthyStr(v) == v # PyNone /\ v # ""
TruthyDict(d) == DOMAIN d # {}
Update(d, k, v) == [x \in DOMAIN d \cup {k} |-> IF x = k THEN v ELSE d[x]]

Return(v) == [raised |-> FALSE, value |-> v]
Raise(t, m) == [raised |-> TRUE, type |-> t, msg |-> m]

\* datetime.utcnow().isoformat() of a clock counting whole seconds from the
\* epoch (exact for clock values 0..9).
IsoFormat(t) == "1970-01-01T00:00:0" \o ToString(t)

\* Texts are over the characters U+0001..U+00FF, the ones a string of this
\* module can hold (an environment value never holds U+0000).  Latin1 lists
\* them in code point order, so a character's position is its code point.
CharAt(s, i) == SubSeq(s, i, i)
\* a literal cannot hold a grave accent unless an apostrophe follows it
GraveAccent == CharAt("`'", 1)
Latin1 ==
    "\t\n\f\r !\"#$%&'()*+,-./0123456789:;<=>?@ABCDEFGHIJKLMNOPQRSTUVWXYZ[\\]^_"
    \o GraveAccent \o
    "abcdefghijklmnopqrstuvwxyz{|}~ ¡¢£¤¥¦§¨©ª«¬­®¯°±²³´µ¶·¸¹º»¼½¾¿ÀÁÂÃÄÅÆÇÈÉÊËÌÍÎÏÐÑÒÓÔÕÖ×ØÙÚÛÜÝÞßàáâãäåæçèéêëìíîïðñòóôõö÷øùúûüýþÿ"
Chr(n) == CharAt(Latin1, n)
Ord(c) == CHOOSE n \in 1..Len(Latin1) : Chr(n) = c

\* int(text) for a str argument, base 10: surrounding whitespace is ignored,
\* one sign may lead, and single underscores may separate digits.  Texts of
\* more than MaxDigits characters after the sign are outside the model
\* (MaxDigits digits stay inside the checker's integers).
\* int() skips \t \n \x0b \x0c \r, the space, U+0085 and U+00A0; it does not
\* skip \x1c..\x1f.  Spaces and digits above U+00FF are outside the alphabet.
Whitespace == {Chr(n) : n \in (9..13) \cup {32, 133, 160}}

RECURSIVE LStrip(_)
LStrip(s) ==
    IF Len(s) > 0 /\ CharAt(s, 1) \in Whitespace
    THEN LStrip(SubSeq(s, 2, Len(s)))
    ELSE s

RECURSIVE RStrip(_)
RStrip(s) ==
    IF Len(s) > 0 /\ CharAt(s, Len(s)) \in Whitespace
    THEN RStrip(SubSeq(s, 1, Len(s) - 1))
    ELSE s

Strip(s) == RStrip(LStrip(s))

DigitChars == {"0", "1", "2", "3", "4", "5", "6", "7", "8", "9"}
DigitValue(c) == Ord(c) - Ord("0")

IsDecimalLiteral(s) ==
    /\ Len(s) \in 1..MaxDigits
    /\ CharAt(s, 1) \in DigitChars
    /\ CharAt(s, Len(s)) \in DigitChars
    /\ \A i \in 1..Len(s) : CharAt(s, i) \in DigitChars \cup {"_"}
    /\ \A i \in 1..(Len(s) - 1) : ~(CharAt(s, i) = "_" /\ CharAt(s, i + 1) = "_")

RECURSIVE DecimalValue(_, _)
DecimalValue(s, acc) ==
    IF Len(s) = 0 THEN acc
    ELSE IF CharAt(s, 1) = "_" THEN DecimalValue(SubSeq(s, 2, Len(s)), acc)
    ELSE DecimalValue(SubSeq(s, 2, Len(s)), 10 * acc + DigitValue(CharAt(s, 1)))

\* repr(text): quoted with ' unless the text holds ' and no "; backslash and
\* the chosen quote get a backslash, \t \n \r their letter, and every other
\* character str.isprintable() rejects is written \xNN.
Contains(s, c) == \E i \in 1..Len(s) : CharAt(s, i) = c

Printable(c) == Ord(c) \in (32..126) \cup (161..172) \cup (174..255)

HexDigits == "0123456789abcdef"
Hex2(n) == CharAt(HexDigits, (n \div 16) + 1) \o CharAt(HexDigits, (n % 16) + 1)

EscapeChar(c, quote) ==
    IF c = quote \/ c = "\\" THEN "\\" \o c
    ELSE IF c = "\t" THEN "\\t"
    ELSE IF c = "\n" THEN "\\n"
    ELSE IF c = "\r" THEN "\\r"
    ELSE IF ~Printable(c) THEN "\\x" \o Hex2(Ord(c))
    ELSE c

RECURSIVE EscapeChars(_, _)
EscapeChars(s, quote) ==
    IF Len(s) = 0 THEN ""
    ELSE EscapeChar(CharAt(s, 1), quote) \o EscapeChars(SubSeq(s, 2, Len(s)), quote)

Repr(s) ==
    LET quote == IF Contains(s, "'") /\ ~Contains(s, "\"") THEN "\"" ELSE "'"
    IN  quote \o EscapeChars(s, quote) \o quote

PyInt(s) ==
    LET t == Strip(s)
        signed == Len(t) > 0 /\ CharAt(t, 1) \in {"+", "-"}
        body == IF signed THEN SubSeq(t, 2, Len(t)) ELSE t
        sign == IF signed /\ CharAt(t, 1) = "-" THEN -1 ELSE 1
    IN  IF IsDecimalLiteral(body)
        THEN Return(sign * DecimalValue(body, 0))
        ELSE Raise("ValueError", "invalid literal for int() with base 10: " \o Repr(s))

\* ------------------------------------------------------- module environment
RESULTS_S3_BUCKET == Get(environ, "RESULTS_S3_BUCKET", PyNone)
SNS_TOPIC_ARN == Get(environ, "SNS_TOPIC_ARN", PyNone)
\* SCAN_TIMEOUT = int(os.environ.get('SCAN_TIMEOUT', '300')), run once when
\* the module is imported: the global holds the outcome of the statement, a
\* value or the exception the import dies with.
ReadScanTimeout == PyInt(Get(environ, "SCAN_TIMEOUT", "300"))
\* The handler exists only when the module body ran to its end.
ImportModule == IF SCAN_TIMEOUT.raised THEN "import_failed" ELSE "ResolveTarget"

\* ------------------------------------------------------ target resolution
FormatArn(region, account_id, function_name) ==
    "arn:aws:lambda:" \o region \o ":" \o account_id \o ":function:" \o function_name

CheckArn(arn) ==
    IF ~TruthyStr(arn) THEN Raise("ValueError", "Function ARN is empty")
    ELSE Return(arn)

ReconstructArn(ev, detail) ==
    LET function_name == Get(detail["requestParameters"], "functionName", PyNone) IN
    IF TruthyStr(function_name)
    THEN LET account_id == Get(ev, "account",
                               Get(Get(detail, "userIdentity", EmptyDict), "accountId", PyNone))
             region == Get(ev, "region", DefaultRegion)
         IN  CheckArn(FormatArn(region, account_id, function_name))
    ELSE Raise("ValueError", "Could not extract function name from event")

\* ExtractArn consulting requestParameters before responseElements
ExtractArn_NameFirst(ev, detail) ==
    IF Has(detail, "requestParameters")
    THEN ReconstructArn(ev, detail)
    ELSE IF Has(detail, "responseElements") /\ TruthyDict(detail["responseElements"])
    THEN CheckArn(Get(detail["responseElements"], "functionArn", PyNone))
    ELSE Raise("ValueError", "Could not extract function ARN from event")

ExtractArn(ev, detail) ==
    IF Has(detail, "responseElements") /\ TruthyDict(detail["responseElements"])
    THEN CheckArn(Get(detail["responseElements"], "functionArn", PyNone))
    ELSE IF Has(detail, "requestParameters")
    THEN ReconstructArn(ev, detail)
    ELSE Raise("ValueError", "Could not extract function ARN from event")

\* ResolveTarget reading the detail with event.get('detail', {})
ResolveTarget_DefaultDetail(ev) == ExtractArn(ev, Get(ev, "detail", EmptyDict))

ResolveTarget(ev) ==
    IF ~Has(ev, "detail")
    THEN Raise("ValueError", "Invalid event structure: missing 'detail' field")
    ELSE ExtractArn(ev, ev["detail"])

\* ------------------------------------------------------------ credentials
\* GetQualysCredentials validating the first required field only
GetQualysCredentials_PodOnly(out) ==
    IF out.failed THEN Raise("ClientError", out.msg)
    ELSE IF ~Has(out.secret, "qualys_pod")
    THEN Raise("ValueError", "Missing required field: qualys_pod")
    ELSE Return(out.secret)

\* out: the answer of secrets_manager.get_secret_value followed by json.loads
GetQualysCredentials(out) ==
    IF out.failed THEN Raise("ClientError", out.msg)
    ELSE IF ~Has(out.secret, "qualys_pod")
    THEN Raise("ValueError", "Missing required field: qualys_pod")
    ELSE IF ~Has(out.secret, "qualys_access_token")
    THEN Raise("ValueError", "Missing required field: qualys_access_token")
    ELSE Return(out.secret)

\* ---------------------------------------------------------------- metadata
ProjectConfiguration(c) ==
    [function_name |-> c["FunctionName"],
     function_arn  |-> c["FunctionArn"],
     runtime       |-> Get(c, "Runtime", "N/A"),
     package_type  |-> Get(c, "PackageType", "Zip"),
     code_sha256   |-> Get(c, "CodeSha256", PyNone),
     image_uri     |-> Get(c, "ImageUri", PyNone),
     last_modified |-> Get(c, "LastModified", PyNone),
     code_size     |-> Get(c, "CodeSize", PyNone),
     memory_size   |-> Get(c, "MemorySize", PyNone),
     timeout       |-> Get(c, "Timeout", PyNone)]

\* MetadataCalls falling back to the ambient client when assume_role fails
MetadataCalls_AmbientFallback(cross_account_role, sts) ==
    IF TruthyStr(cross_account_role)
    THEN IF sts.failed THEN <<"assume_role", "get_function:ambient">>
         ELSE <<"assume_role", "get_function:assumed">>
    ELSE <<"get_function:ambient">>

\* The collaborator calls get_lambda_details makes, in order, for a given
\* role setting and the answers of STS and the Lambda API.
MetadataCalls(cross_account_role, sts) ==
    IF TruthyStr(cross_account_role)
    THEN IF sts.failed THEN <<"assume_role">>
         ELSE <<"assume_role", "get_function:assumed">>
    ELSE <<"get_function:ambient">>

GetLambdaDetails(cross_account_role, sts, api) ==
    IF TruthyStr(cross_account_role) /\ sts.failed
    THEN Raise("ClientError", sts.msg)
    ELSE IF api.failed THEN Raise("ClientError", api.msg)
    ELSE Return(ProjectConfiguration(api.configuration))

\* ----------------------------------------------------------------- scanner
\* json.loads restricted to the stdout texts the model feeds it.  A parsed
\* value carries its Python type, which store_results tests with isinstance.
JsonLoads(s) ==
    CASE s = "{}" -> Return([type |-> "dict", items |-> EmptyDict])
      [] s = "{\"vulnerabilities\": {\"critical\": 1}}" ->
            Return([type |-> "dict",
                    items |-> ("vulnerabilities" :> ("critical" :> 1))])
      [] s = "{\"packages\": 3}" ->
            Return([type |-> "dict", items |-> ("packages" :> 3)])
      [] s = "[1]" -> Return([type |-> "list", items |-> <<1>>])
      [] OTHER -> Raise("JSONDecodeError", "Expecting value")

\* ParseOutput dropping unparseable output instead of keeping it raw
ParseOutput_NoFallback(stdout, stderr) ==
    IF stdout = "" THEN [type |-> "dict", items |-> EmptyDict]
    ELSE LET parsed == JsonLoads(stdout) IN
         IF parsed.raised
         THEN [type |-> "dict", items |-> EmptyDict]
         ELSE parsed.value

ParseOutput(stdout, stderr) ==
    IF stdout = "" THEN [type |-> "dict", items |-> EmptyDict]
    ELSE LET parsed == JsonLoads(stdout) IN
         IF parsed.raised
         THEN [type |-> "dict",
               items |-> ("raw_output" :> stdout) @@ ("stderr" :> stderr)]
         ELSE parsed.value

\* CompletedProcess without the return-code test
CompletedProcess_IgnoreExitCode(proc) ==
    Return([success   |-> TRUE,
            exit_code |-> proc.returncode,
            results   |-> ParseOutput(proc.stdout, proc.stderr),
            stdout    |-> proc.stdout,
            stderr    |-> proc.stderr])

CompletedProcess(proc) ==
    IF proc.returncode # 0
    THEN Raise("ScanException", "QScanner failed: " \o proc.stderr)
    ELSE Return([success   |-> TRUE,
                 exit_code |-> proc.returncode,
                 results   |-> ParseOutput(proc.stdout, proc.stderr),
                 stdout    |-> proc.stdout,
                 stderr    |-> proc.stderr])

\* TimeoutExpired handled by returning whatever was captured so far
TimeoutExpired_PartialSuccess ==
    Return([success   |-> TRUE,
            exit_code |-> 0,
            results   |-> [type |-> "dict", items |-> EmptyDict],
            stdout    |-> "",
            stderr    |-> ""])

TimeoutExpired ==
    Raise("ScanException", "Scan timeout after " \o ToString(SCAN_TIMEOUT.value) \o " seconds")

\* The class OSError(errno, strerror, filename) takes from its errno (Linux
\* numbers), and str() of the exception: "[Errno N] strerror: 'filename'", or
\* "[Errno N] strerror" when it carries no filename.  subprocess names the
\* executable when the exec failed and no file when the fork or the pipes did.
OSErrorType(errno) ==
    CASE errno \in {1, 13} -> "PermissionError"
      [] errno = 2 -> "FileNotFoundError"
      [] errno = 3 -> "ProcessLookupError"
      [] errno = 4 -> "InterruptedError"
      [] errno = 10 -> "ChildProcessError"
      [] errno \in {11, 114, 115} -> "BlockingIOError"
      [] errno = 17 -> "FileExistsError"
      [] errno = 20 -> "NotADirectoryError"
      [] errno = 21 -> "IsADirectoryError"
      [] errno \in {32, 108} -> "BrokenPipeError"
      [] errno = 103 -> "ConnectionAbortedError"
      [] errno = 104 -> "ConnectionResetError"
      [] errno = 110 -> "TimeoutError"
      [] errno = 111 -> "ConnectionRefusedError"
      [] OTHER -> "OSError"

OSErrorStr(proc) ==
    "[Errno " \o ToString(proc.errno) \o "] " \o proc.strerror
        \o (IF proc.filename = PyNone THEN "" ELSE ": " \o Repr(proc.filename))

\* proc: what subprocess.run did (returned, timed out, or could not start)
RunQScanner(proc) ==
    CASE proc.kind = "timeout" -> TimeoutExpired
      [] proc.kind = "oserror" -> Raise(OSErrorType(proc.errno), OSErrorStr(proc))
      [] OTHER -> CompletedProcess(proc)

ScannerCmd(arn, creds) ==
    <<QSCANNER_PATH, "--pod", creds["qualys_pod"],
      "--access-token", creds["qualys_access_token"],
      "--output-format", "json", "lambda", arn>>

RegistryEnv(env, creds, key, var) ==
    IF Has(creds, key) THEN Update(env, var, creds[key]) ELSE env

ScannerEnv(creds, aws_region) ==
    RegistryEnv(
      RegistryEnv(
        RegistryEnv(Update(environ, "AWS_REGION", aws_region),
                    creds, "registry_username", "QSCANNER_REGISTRY_USERNAME"),
        creds, "registry_password", "QSCANNER_REGISTRY_PASSWORD"),
      creds, "registry_token", "QSCANNER_REGISTRY_TOKEN")

\* aws_region = event.get('region', os.environ.get('AWS_REGION', 'us-east-1'))
ScanRegion(ev) == Get(ev, "region", Get(environ, "AWS_REGION", DefaultRegion))

\* ------------------------------------------------------------------- sink
FullResults(timestamp, details, results) ==
    [scan_timestamp |-> timestamp, lambda_function |-> details, scan_results |-> results]

S3Key(details, timestamp) ==
    "scans/" \o details["function_name"] \o "/" \o timestamp \o ".json"

SummaryMessage(timestamp, details, results) ==
    ("function_name" :> details["function_name"]) @@
    ("function_arn" :> details["function_arn"]) @@
    ("scan_timestamp" :> timestamp) @@
    ("scan_success" :> results["success"]) @@
    ("image_uri" :> Get(details, "image_uri", "N/A"))

NotificationMessage(timestamp, details, results) ==
    IF Has(results, "results") /\ results["results"].type = "dict"
    THEN Update(SummaryMessage(timestamp, details, results), "vulnerability_summary",
                Get(results["results"].items, "vulnerabilities", EmptyDict))
    ELSE SummaryMessage(timestamp, details, results)

\* SinkCalls giving up on the notification once the S3 write has failed
SinkCalls_AbortOnS3Failure(put, pub, out) ==
    IF put /\ out.s3_failed THEN <<"put_object">>
    ELSE (IF put THEN <<"put_object">> ELSE <<>>) \o (IF pub THEN <<"publish">> ELSE <<>>)

\* The collaborator calls store_results makes, in order: each sink is tried
\* when it is configured, whatever happened to the other.
SinkCalls(put, pub, out) ==
    (IF put THEN <<"put_object">> ELSE <<>>) \o (IF pub THEN <<"publish">> ELSE <<>>)

\* store_results letting a failed S3 write escape instead of logging it
SinkException_S3Propagates(put, pub, out) ==
    IF put /\ out.s3_failed THEN Raise("ClientError", "S3 put_object failed")
    ELSE Return(PyNone)

\* What store_results hands back to lambda_handler: both sink failures are
\* caught and logged inside store_results, so it always returns None.
SinkException(put, pub, out) == Return(PyNone)

\* --------------------------------------------------------------- responses
SuccessResponse(arn, details, results) ==
    [statusCode |-> 200,
     message |-> "Scan completed successfully",
     function_arn |-> arn,
     package_type |-> details["package_type"],
     scan_success |-> results["success"]]

\* HandlerExcept without the general except clause: anything that is not a
\* ScanException leaves the handler and no response is produced
HandlerExcept_OnlyScanException(exc) ==
    IF exc.type = "ScanException"
    THEN [statusCode |-> 500, message |-> "Scan failed", error |-> exc.msg]
    ELSE [statusCode |-> 0]

\* HandlerExcept answering 200 for anything that is not a ScanException
HandlerExcept_SwallowUnexpected(exc) ==
    IF exc.type = "ScanException"
    THEN [statusCode |-> 500, message |-> "Scan failed", error |-> exc.msg]
    ELSE [statusCode |-> 200, message |-> "Scan completed successfully", error |-> exc.msg]

HandlerExcept(exc) ==
    IF exc.type = "ScanException"
    THEN [statusCode |-> 500, message |-> "Scan failed", error |-> exc.msg]
    ELSE [statusCode |-> 500, message |-> "Internal error", error |-> exc.msg]

\* NextPc running the scanner again after it raised
NextPc_RetryScanner(step, r) ==
    IF r.raised THEN (IF step = "RunScanner" THEN "RunScanner" ELSE "done")
    ELSE CASE step = "ResolveTarget" -> "GetCredentials"
           [] step = "GetCredentials" -> "GetDetails"
           [] step = "GetDetails" -> "RunScanner"
           [] step = "RunScanner" -> "StoreResults"
           [] OTHER -> "done"

\* NextPc going on to the scanner although the metadata fetch raised
NextPc_ContinueAfterMetadataFailure(step, r) ==
    IF r.raised /\ step # "GetDetails" THEN "done"
    ELSE CASE step = "ResolveTarget" -> "GetCredentials"
           [] step = "GetCredentials" -> "GetDetails"
           [] step = "GetDetails" -> "RunScanner"
           [] step = "RunScanner" -> "StoreResults"
           [] OTHER -> "done"

\* Where the handler goes after a step: into an except clause when the step
\* raised, to the next statement otherwise.
NextPc(step, r) ==
    IF r.raised THEN "done"
    ELSE CASE step = "ResolveTarget" -> "GetCredentials"
           [] step = "GetCredentials" -> "GetDetails"
           [] step = "GetDetails" -> "RunScanner"
           [] step = "RunScanner" -> "StoreResults"
           [] OTHER -> "done"

NoResponse == [statusCode |-> 0]
NoResult == [kind |-> "none"]

\* ------------------------------------------------------------------ inputs
ArnValues == {"X", ""}
ResponseElementsValues ==
    {EmptyDict, ("statement" :> "s")} \cup {("functionArn" :> a) : a \in ArnValues}
RequestParametersValues ==
    {EmptyDict} \cup {("functionName" :> n) : n \in {"f", ""}}
UserIdentityValues == {("accountId" :> "456")}

\* S together with every dict of S extended by key k with a value of V
AddOptional(S, k, V) == S \cup {Update(d, k, v) : d \in S, v \in V}

DetailValues ==
    AddOptional(AddOptional(AddOptional({EmptyDict},
        "responseElements", ResponseElementsValues),
        "requestParameters", RequestParametersValues),
        "userIdentity", UserIdentityValues)

AllEvents ==
    AddOptional(AddOptional({EmptyDict} \cup {("detail" :> d) : d \in DetailValues},
        "account", {"123"}),
        "region", {"us-west-2"})

DirectEvent == ("detail" :> ("responseElements" :> ("functionArn" :> "X")))
NamedEvent ==
    ("detail" :> (("requestParameters" :> ("functionName" :> "f")) @@
                  ("userIdentity" :> ("accountId" :> "456")))) @@
    ("account" :> "123")

PipelineEvents ==
    {EmptyDict, DirectEvent, NamedEvent, Update(NamedEvent, "region", "us-west-2")}

SinkEnvirons ==
    AddOptional(AddOptional({EmptyDict},
        "RESULTS_S3_BUCKET", {"bucket"}),
        "SNS_TOPIC_ARN", {"arn:aws:sns:topic"})

\* a short timeout, one padded with a space and a vertical tab, and one that
\* is no number
ScanTimeoutTexts == {"1", " 60" \o Chr(11), "abc"}

AllEnvirons ==
    AddOptional(AddOptional(AddOptional(SinkEnvirons,
        "CROSS_ACCOUNT_ROLE_ARN", {"arn:aws:iam::role/scan"}),
        "AWS_REGION", {"eu-west-1"}),
        "SCAN_TIMEOUT", ScanTimeoutTexts)

\* The cache store is state outside the program: a table keyed by resource_id
\* whose records carry a content hash and a scan timestamp.  No statement of
\* lambda_function.py reads or writes it, so every action leaves it unchanged.
Hashes == {"h1", "h2"}
StartTime == CacheTTL
CacheKeys == {"X", "arn:aws:lambda:us-east-1:123:function:f"}
CacheRecords ==
    [content_hash : Hashes, scan_timestamp : 0..StartTime]
CacheStates ==
    {EmptyDict} \cup {(k :> r) : k \in CacheKeys, r \in CacheRecords}

SecretOutcomes ==
    {[failed |-> TRUE, msg |-> "AccessDeniedException"]} \cup
    {[failed |-> FALSE, secret |-> s] :
       s \in {EmptyDict,
              ("qualys_pod" :> "US1"),
              ("qualys_access_token" :> "tok"),
              ("qualys_pod" :> "US1") @@ ("qualys_access_token" :> "tok"),
              ("qualys_pod" :> "US1") @@ ("qualys_access_token" :> "tok") @@
                ("registry_token" :> "rt")}}

StsOutcomes ==
    {[failed |-> TRUE, msg |-> "AccessDenied"], [failed |-> FALSE]}

Configurations ==
    {("FunctionName" :> "f") @@ ("FunctionArn" :> "X"),
     ("FunctionName" :> "f") @@ ("FunctionArn" :> "X") @@ ("Runtime" :> "python3.11") @@
       ("PackageType" :> "Zip") @@ ("CodeSha256" :> "h1"),
     ("FunctionName" :> "f") @@ ("FunctionArn" :> "X") @@ ("PackageType" :> "Image") @@
       ("CodeSha256" :> "h2") @@ ("ImageUri" :> "repo/img:1")}

ApiOutcomes ==
    {[failed |-> TRUE, msg |-> "ResourceNotFoundException"]} \cup
    {[failed |-> FALSE, configuration |-> c] : c \in Configurations}

Stdouts == {"", "{}", "{\"vulnerabilities\": {\"critical\": 1}}", "{\"packages\": 3}",
            "[1]", "not json"}
Stderrs == {"", "boom"}

ProcOutcomes ==
    {[kind |-> "timeout"],
     [kind |-> "oserror", errno |-> 2, strerror |-> "No such file or directory",
      filename |-> QSCANNER_PATH],
     [kind |-> "oserror", errno |-> 13, strerror |-> "Permission denied",
      filename |-> QSCANNER_PATH],
     [kind |-> "oserror", errno |-> 20, strerror |-> "Not a directory",
      filename |-> QSCANNER_PATH],
     [kind |-> "oserror", errno |-> 24, strerror |-> "Too many open files",
      filename |-> PyNone]} \cup
    [kind : {"exit"}, returncode : 0..MaxExitCode, stdout : Stdouts, stderr : Stderrs]

SinkOutcomes == [s3_failed : BOOLEAN, sns_failed : BOOLEAN, elapsed : 0..MaxElapsed]

\* ------------------------------------------------------------------- state
InitWith(events, environs, caches) ==
    /\ event \in events
    /\ environ \in environs
    /\ SCAN_TIMEOUT = ReadScanTimeout
    /\ cache \in caches
    /\ now = StartTime
    /\ pc = ImportModule
    /\ function_arn = PyNone
    /\ qualys_creds = EmptyDict
    /\ lambda_details = EmptyDict
    /\ result = NoResult
    /\ scan_results = EmptyDict
    /\ response = NoResponse
    /\ trace = <<>>
    /\ subprocess_calls = <<>>
    /\ s3_objects = <<>>
    /\ sns_messages = <<>>
    /\ secret = NoResult
    /\ assumed_role = NoResult

Init == InitWith(PipelineEvents, AllEnvirons, {EmptyDict})
InitCache == InitWith(PipelineEvents \ {EmptyDict}, SinkEnvirons, CacheStates)
InitResolve ==
    InitWith(AllEvents,
             {("RESULTS_S3_BUCKET" :> "bucket") @@ ("SNS_TOPIC_ARN" :> "arn:aws:sns:topic")},
             {EmptyDict})

\* ----------------------------------------------------------------- actions
\* lambda_handler, lines 273-300
ResolveTargetStep ==
    /\ pc = "ResolveTarget"
    /\ LET r == ResolveTarget(event) IN
       /\ pc' = NextPc(pc, r)
       /\ IF r.raised
          THEN /\ response' = HandlerExcept(r)
               /\ UNCHANGED function_arn
          ELSE /\ function_arn' = r.value
               /\ UNCHANGED response
    /\ UNCHANGED <<event, environ, SCAN_TIMEOUT, cache, now, qualys_creds, lambda_details, result,
                   scan_results, trace, subprocess_calls, s3_objects, sns_messages,
                   secret, assumed_role>>

\* lambda_handler, line 303
GetCredentialsStep ==
    /\ pc = "GetCredentials"
    /\ \E out \in SecretOutcomes :
         LET r == GetQualysCredentials(out) IN
         /\ secret' = out
         /\ pc' = NextPc(pc, r)
         /\ IF r.raised
            THEN /\ response' = HandlerExcept(r)
                 /\ UNCHANGED qualys_creds
            ELSE /\ qualys_creds' = r.value
                 /\ UNCHANGED response
    /\ trace' = Append(trace, "get_secret_value")
    /\ UNCHANGED <<event, environ, SCAN_TIMEOUT, cache, now, function_arn, lambda_details, result,
                   scan_results, subprocess_calls, s3_objects, sns_messages,
                   assumed_role>>

\* lambda_handler, lines 306-309
GetDetailsStep ==
    /\ pc = "GetDetails"
    /\ LET cross_account_role == Get(environ, "CROSS_ACCOUNT_ROLE_ARN", PyNone) IN
       \E sts \in StsOutcomes, api \in ApiOutcomes :
         LET r == GetLambdaDetails(cross_account_role, sts, api) IN
         /\ trace' = trace \o MetadataCalls(cross_account_role, sts)
         /\ assumed_role' = IF TruthyStr(cross_account_role) THEN sts ELSE assumed_role
         /\ pc' = NextPc(pc, r)
         /\ IF r.raised
            THEN /\ response' = HandlerExcept(r)
                 /\ UNCHANGED lambda_details
            ELSE /\ lambda_details' = r.value
                 /\ UNCHANGED response
    /\ UNCHANGED <<event, environ, SCAN_TIMEOUT, cache, now, function_arn, qualys_creds, result,
                   scan_results, subprocess_calls, s3_objects, sns_messages, secret>>

\* lambda_handler, lines 312-319
RunScannerStep ==
    /\ pc = "RunScanner"
    /\ subprocess_calls' = Append(subprocess_calls,
          [cmd |-> ScannerCmd(function_arn, qualys_creds),
           env |-> ScannerEnv(qualys_creds, ScanRegion(event)),
           timeout |-> SCAN_TIMEOUT.value])
    /\ trace' = Append(trace, "subprocess.run")
    /\ \E proc \in ProcOutcomes :
         LET r == RunQScanner(proc) IN
         /\ result' = proc
         /\ pc' = NextPc(pc, r)
         /\ IF r.raised
            THEN /\ response' = HandlerExcept(r)
                 /\ UNCHANGED scan_results
            ELSE /\ scan_results' = r.value
                 /\ UNCHANGED response
    /\ UNCHANGED <<event, environ, SCAN_TIMEOUT, cache, now, function_arn, qualys_creds,
                   lambda_details, s3_objects, sns_messages, secret, assumed_role>>

\* lambda_handler, lines 322-332 (store_results, then the 200 response)
StoreResultsStep ==
    /\ pc = "StoreResults"
    /\ \E out \in SinkOutcomes :
         LET timestamp == IsoFormat(now)
             put == TruthyStr(RESULTS_S3_BUCKET)
             pub == TruthyStr(SNS_TOPIC_ARN)
         IN
         /\ s3_objects' =
              IF put /\ ~out.s3_failed
              THEN Append(s3_objects,
                          [Bucket |-> RESULTS_S3_BUCKET,
                           Key |-> S3Key(lambda_details, timestamp),
                           Body |-> FullResults(timestamp, lambda_details, scan_results)])
              ELSE s3_objects
         /\ sns_messages' =
              IF pub /\ ~out.sns_failed
              THEN Append(sns_messages,
                          NotificationMessage(timestamp, lambda_details, scan_results))
              ELSE sns_messages
         /\ trace' = trace \o SinkCalls(put, pub, out)
         /\ now' = now + out.elapsed
         /\ LET r == SinkException(put, pub, out) IN
            /\ pc' = NextPc(pc, r)
            /\ response' = IF r.raised THEN HandlerExcept(r)
                           ELSE SuccessResponse(function_arn, lambda_details, scan_results)
    /\ UNCHANGED <<event, environ, SCAN_TIMEOUT, cache, function_arn, qualys_creds,
                   lambda_details, result, scan_results, subprocess_calls,
                   secret, assumed_role>>

Next ==
    \/ ResolveTargetStep
    \/ GetCredentialsStep
    \/ GetDetailsStep
    \/ RunScannerStep
    \/ StoreResultsStep

Spec == Init /\ [][Next]_vars
SpecCache == InitCache /\ [][Next]_vars
SpecResolve == InitResolve /\ [][Next]_vars
\* One invocation is a single thread that runs on until it returns.
SpecLive == Init /\ [][Next]_vars /\ WF_vars(Next)

TypeOK ==
    /\ pc \in {"ResolveTarget", "GetCredentials", "GetDetails", "RunScanner",
               "StoreResults", "done", "import_failed"}
    /\ response.statusCode \in {0, 200, 500}
    /\ now \in StartTime..(StartTime + MaxElapsed)

\* ------------------------------------------------------------- vocabulary
InTrace(op) == \E i \in 1..Len(trace) : trace[i] = op
Resolved == pc \notin {"ResolveTarget", "import_failed"}
MetadataFetched == DOMAIN lambda_details # {}
ScanSucceeded == DOMAIN scan_results # {}
SinkUntouched ==
    /\ ~InTrace("put_object") /\ ~InTrace("publish")
    /\ s3_objects = <<>> /\ sns_messages = <<>>

\* The cache record of the resolved resource matches the fetched metadata's
\* content hash and is younger than the TTL.
CacheHit ==
    /\ MetadataFetched
    /\ Has(cache, function_arn)
    /\ cache[function_arn].content_hash = lambda_details["code_sha256"]
    /\ now - cache[function_arn].scan_timestamp < CacheTTL

\* C1: whenever the cache holds a record for the resolved resource with the
\* fetched content hash and an age within the TTL, the scanner subprocess is
\* never run and the handler answers 200 with a response that is not the
\* "scan completed" one.
C1_CacheHitSkipsScanner ==
    CacheHit =>
        /\ subprocess_calls = <<>>
        /\ ~InTrace("subprocess.run")
        /\ pc = "done" => /\ response.statusCode = 200
                          /\ response.message # "Scan completed successfully"

\* C2: the skip decision taken once the metadata is known is "skip" exactly
\* when a record exists, its hash equals the current hash and its age is below
\* the TTL; with no record, a differing hash or an age of at least the TTL the
\* decision is "scan".
C2_CheckDecision ==
    (MetadataFetched /\ subprocess_calls = <<>>) =>
        ((pc = "done" /\ response.statusCode = 200) <=> CacheHit)

\* C3: after a successful scanner run the cache record of the resource holds
\* the content hash fetched in this invocation and a timestamp taken during
\* this invocation, and the invocation has not failed.
C3_CacheUpdatedAfterScan ==
    (pc = "done" /\ ScanSucceeded) =>
        /\ Has(cache, function_arn)
        /\ cache[function_arn].content_hash = lambda_details["code_sha256"]
        /\ cache[function_arn].scan_timestamp \in StartTime..now
        /\ response.statusCode = 200

\* C4: a subprocess that returns a non-zero exit code never yields a scan
\* result; the handler ends with status 500 "Scan failed", the error text is
\* "QScanner failed: " followed by the captured stderr, and neither sink is
\* touched.
C4_NonZeroExitFails ==
    (result.kind = "exit" /\ result.returncode # 0) =>
        /\ pc = "done"
        /\ ~ScanSucceeded
        /\ response.statusCode = 500
        /\ response.message = "Scan failed"
        /\ response.error = "QScanner failed: " \o result.stderr
        /\ SinkUntouched

C4_Witness ==
    /\ pc = "done"
    /\ result.kind = "exit" /\ result.returncode = MaxExitCode
    /\ result.stderr = "boom" /\ result.stdout # ""
    /\ TruthyStr(RESULTS_S3_BUCKET) /\ TruthyStr(SNS_TOPIC_ARN)

\* C5: a subprocess that exceeds SCAN_TIMEOUT never yields a scan result; the
\* handler ends with status 500 and the timeout message naming the configured
\* seconds (the ones subprocess.run was given; 300 when the environment sets
\* none), and neither the S3 write nor the SNS publish happens.
C5_TimeoutFails ==
    result.kind = "timeout" =>
        /\ pc = "done"
        /\ ~ScanSucceeded
        /\ response.statusCode = 500
        /\ response.message = "Scan failed"
        /\ ~SCAN_TIMEOUT.raised
        /\ subprocess_calls[Len(subprocess_calls)].timeout = SCAN_TIMEOUT.value
        /\ response.error =
              "Scan timeout after " \o ToString(SCAN_TIMEOUT.value) \o " seconds"
        /\ (~Has(environ, "SCAN_TIMEOUT") =>
              response.error = "Scan timeout after 300 seconds")
        /\ SinkUntouched

C5_Witness ==
    /\ pc = "done"
    /\ result.kind = "timeout"
    /\ TruthyStr(RESULTS_S3_BUCKET) /\ TruthyStr(SNS_TOPIC_ARN)
    /\ Len(subprocess_calls) = 1
    /\ Has(environ, "SCAN_TIMEOUT")
    /\ environ["SCAN_TIMEOUT"] = " 60" \o Chr(11)
    /\ subprocess_calls[1].timeout = 60
    /\ response.error = "Scan timeout after 60 seconds"

\* C6: exit code 0 with non-empty stdout that is not JSON gives success=true
\* with results {raw_output: stdout, stderr: stderr}; exit code 0 with empty
\* stdout gives the empty results; in both cases the handler goes on to
\* store_results and answers 200.
C6_UnparseableOutputSucceeds ==
    (result.kind = "exit" /\ result.returncode = 0) =>
        /\ pc \in {"StoreResults", "done"}
        /\ ScanSucceeded
        /\ scan_results["success"] = TRUE
        /\ (result.stdout # "" /\ JsonLoads(result.stdout).raised) =>
              scan_results["results"] =
                 [type |-> "dict",
                  items |-> ("raw_output" :> result.stdout) @@ ("stderr" :> result.stderr)]
        /\ result.stdout = "" =>
              scan_results["results"] = [type |-> "dict", items |-> EmptyDict]
        /\ pc = "done" => response.statusCode = 200

C6_Witness ==
    /\ pc = "done"
    /\ result.kind = "exit" /\ result.returncode = 0
    /\ result.stdout = "not json" /\ result.stderr = "boom"
    /\ Has(scan_results["results"].items, "raw_output")
    /\ Len(s3_objects) = 1 /\ Len(sns_messages) = 1

\* C7: an event without `detail` ends the invocation at target resolution
\* with status 500 and the missing-detail error, and no credential fetch,
\* metadata fetch, scanner run, S3 write or SNS publish takes place.
C7_MissingDetailFails ==
    (~Has(event, "detail") /\ Resolved) =>
        /\ pc = "done"
        /\ response = [statusCode |-> 500, message |-> "Internal error",
                       error |-> "Invalid event structure: missing 'detail' field"]
        /\ function_arn = PyNone
        /\ trace = <<>>
        /\ subprocess_calls = <<>>
        /\ SinkUntouched

C7_Witness ==
    /\ pc = "done"
    /\ ~Has(event, "detail")
    /\ Has(event, "account") /\ Has(event, "region")
    /\ response.statusCode = 500

\* the event's detail.responseElements.functionArn, when it is a non-empty string
HasDirectArn ==
    /\ Has(event, "detail")
    /\ Has(event["detail"], "responseElements")
    /\ Has(event["detail"]["responseElements"], "functionArn")
    /\ event["detail"]["responseElements"]["functionArn"] # ""
DirectArn == event["detail"]["responseElements"]["functionArn"]

\* C8: when detail.responseElements.functionArn is a non-empty string X the
\* resolved target is X, and X is what the scanner is run on, whatever
\* requestParameters, account, region and userIdentity hold.
C8_DirectArnUsed ==
    (HasDirectArn /\ Resolved) =>
        /\ function_arn = DirectArn
        /\ pc # "done" \/ response.statusCode = 200 \/ InTrace("get_secret_value")
        /\ \A i \in 1..Len(subprocess_calls) : subprocess_calls[i].cmd[9] = DirectArn
        /\ pc = "done" /\ response.statusCode = 200 => response.function_arn = DirectArn

C8_Witness ==
    /\ pc = "done"
    /\ HasDirectArn /\ DirectArn = "X"
    /\ Has(event["detail"], "requestParameters")
    /\ Get(event["detail"]["requestParameters"], "functionName", PyNone) = "f"
    /\ Has(event, "account") /\ Has(event, "region")
    /\ Len(subprocess_calls) = 1
    /\ response.statusCode = 200

\* the event's detail.requestParameters.functionName, when it is non-empty
HasFunctionName ==
    /\ Has(event, "detail")
    /\ Has(event["detail"], "requestParameters")
    /\ Has(event["detail"]["requestParameters"], "functionName")
    /\ event["detail"]["requestParameters"]["functionName"] # ""
FunctionName == event["detail"]["requestParameters"]["functionName"]

\* the event carries a functionArn key at all
CarriesArn ==
    /\ Has(event, "detail")
    /\ Has(event["detail"], "responseElements")
    /\ Has(event["detail"]["responseElements"], "functionArn")

HasAccount ==
    \/ Has(event, "account")
    \/ /\ Has(event["detail"], "userIdentity")
       /\ Has(event["detail"]["userIdentity"], "accountId")
ExpectedAccount ==
    IF Has(event, "account") THEN event["account"]
    ELSE Get(Get(event["detail"], "userIdentity", EmptyDict), "accountId", PyNone)
ExpectedRegion == IF Has(event, "region") THEN event["region"] ELSE "us-east-1"
ExpectedArn ==
    "arn:aws:lambda:" \o ExpectedRegion \o ":" \o ExpectedAccount
                      \o ":function:" \o FunctionName

\* C9: an event without any function ARN whose requestParameters.functionName
\* is f resolves to arn:aws:lambda:<region>:<account>:function:<f>, with the
\* account from the event's `account` or else userIdentity.accountId and the
\* region from the event's `region` or else us-east-1; with f, "123" and
\* "us-west-2" that is arn:aws:lambda:us-west-2:123:function:f.
C9_NameReconstruction ==
    (HasFunctionName /\ ~CarriesArn /\ HasAccount /\ Resolved) =>
        /\ function_arn = ExpectedArn
        /\ (FunctionName = "f" /\ Get(event, "account", PyNone) = "123"
              /\ Get(event, "region", PyNone) = "us-west-2") =>
                 function_arn = "arn:aws:lambda:us-west-2:123:function:f"

\* C10: responseElements.functionArn is used only when present and non-empty;
\* otherwise, when requestParameters.functionName is available, the target is
\* reconstructed from the name; resolution fails as unresolvable only when
\* neither source is available.
C10_ResolutionOrder ==
    (Has(event, "detail") /\ Resolved) =>
        /\ HasDirectArn => function_arn = DirectArn
        /\ (~HasDirectArn /\ HasFunctionName) => function_arn = ExpectedArn
        /\ (~HasDirectArn /\ ~HasFunctionName) =>
              /\ pc = "done"
              /\ response.statusCode = 500
              /\ function_arn = PyNone

S3WriteFailed == InTrace("put_object") /\ s3_objects = <<>>
SnsPublishFailed == InTrace("publish") /\ sns_messages = <<>>

\* C11: once the scanner has returned a success result, the invocation ends
\* with the 200 response carrying the scan's success flag, also when the S3
\* write, the SNS publish or both have failed.
C11_SinkFailureNotFatal ==
    (pc = "done" /\ ScanSucceeded) =>
        /\ response.statusCode = 200
        /\ response.message = "Scan completed successfully"
        /\ response.scan_success = scan_results["success"]
        /\ response.function_arn = function_arn

C11_Witness ==
    /\ pc = "done"
    /\ ScanSucceeded
    /\ S3WriteFailed /\ SnsPublishFailed
    /\ response.statusCode = 200

\* the structured results of the scan hold a `vulnerabilities` field
ResultsHaveVulnerabilities ==
    /\ ScanSucceeded
    /\ scan_results["results"].type = "dict"
    /\ Has(scan_results["results"].items, "vulnerabilities")

\* C12: a published message carries vulnerability_summary only if the scan's
\* structured results contain `vulnerabilities`; with empty results, the
\* raw_output fallback or results lacking the field there is no such key.
C12_SummaryOnlyWithVulnerabilities ==
    \A i \in 1..Len(sns_messages) :
        Has(sns_messages[i], "vulnerability_summary") => ResultsHaveVulnerabilities

\* the four primary steps of the invocation, each judged by what it left behind
ResolveSucceeded == function_arn # PyNone
CredentialsSucceeded == DOMAIN qualys_creds # {}
PrimaryStepsSucceeded ==
    ResolveSucceeded /\ CredentialsSucceeded /\ MetadataFetched /\ ScanSucceeded

\* C13: the handler answers 200 exactly when target resolution, credential
\* retrieval, metadata fetch and scanner run all succeeded, and 500 with an
\* error message when any of them failed.
C13_StatusMapping ==
    pc = "done" =>
        /\ response.statusCode = 200 <=> PrimaryStepsSucceeded
        /\ ~PrimaryStepsSucceeded =>
              /\ response.statusCode = 500
              /\ response.message \in {"Scan failed", "Internal error"}
              /\ "error" \in DOMAIN response

C13_Witness ==
    /\ pc = "done"
    /\ CredentialsSucceeded /\ ~MetadataFetched
    /\ InTrace("get_function:ambient")
    /\ response.statusCode = 500
    /\ response.error = "ResourceNotFoundException"

SecretFetched == secret # NoResult /\ ~secret.failed
MissingFields == {"qualys_pod", "qualys_access_token"} \ DOMAIN secret.secret

\* C14: a fetched secret lacking qualys_pod or qualys_access_token ends the
\* invocation with status 500 and an error naming a missing field, no
\* credentials are kept and neither the metadata fetch nor the scanner is
\* called; a secret holding both fields becomes the credentials unchanged.
C14_CredentialValidation ==
    SecretFetched =>
        /\ MissingFields # {} =>
              /\ pc = "done"
              /\ response.statusCode = 500
              /\ response.error \in {"Missing required field: " \o f : f \in MissingFields}
              /\ qualys_creds = EmptyDict
              /\ trace = <<"get_secret_value">>
              /\ subprocess_calls = <<>>
              /\ ~MetadataFetched
        /\ MissingFields = {} => qualys_creds = secret.secret

C14_Witness ==
    /\ pc = "done"
    /\ SecretFetched
    /\ MissingFields = {"qualys_access_token"}
    /\ response.error = "Missing required field: qualys_access_token"

Count(op) == Cardinality({i \in 1..Len(trace) : trace[i] = op})

\* C15: within one invocation every collaborator is called at most once; in
\* particular the scanner subprocess is spawned at most once, whatever the
\* outcome of the scanner or of any other step.
C15_NoRetries ==
    /\ Count("get_secret_value") <= 1
    /\ Count("assume_role") <= 1
    /\ Count("get_function:ambient") + Count("get_function:assumed") <= 1
    /\ Count("subprocess.run") <= 1
    /\ Count("put_object") <= 1
    /\ Count("publish") <= 1
    /\ Len(subprocess_calls) = Count("subprocess.run")

C15_Witness ==
    /\ pc = "done"
    /\ result.kind = "exit" /\ result.returncode = 1
    /\ Count("subprocess.run") = 1 /\ Len(subprocess_calls) = 1
    /\ Count("get_secret_value") = 1

\* position of a collaborator call in the pipeline
StepRank(op) ==
    CASE op = "get_secret_value" -> 1
      [] op = "assume_role" -> 2
      [] op \in {"get_function:ambient", "get_function:assumed"} -> 3
      [] op = "subprocess.run" -> 4
      [] op = "put_object" -> 5
      [] OTHER -> 6

\* C16: the steps happen only in the order resolve, credentials, metadata,
\* scanner, store; a step has run only if every earlier one succeeded; a
\* failed invocation has stopped and has touched neither sink.
C16_OrderedFailStop ==
    /\ \A i, j \in 1..Len(trace) : i < j => StepRank(trace[i]) < StepRank(trace[j])
    /\ InTrace("get_secret_value") => ResolveSucceeded
    /\ (InTrace("assume_role") \/ InTrace("get_function:ambient")
          \/ InTrace("get_function:assumed")) => CredentialsSucceeded
    /\ InTrace("subprocess.run") => MetadataFetched
    /\ (InTrace("put_object") \/ InTrace("publish")) => ScanSucceeded
    /\ response.statusCode = 500 => pc = "done" /\ SinkUntouched /\ ~PrimaryStepsSucceeded

C16_Witness ==
    /\ pc = "done"
    /\ response.statusCode = 500
    /\ trace = <<"get_secret_value", "assume_role">>
    /\ TruthyStr(RESULTS_S3_BUCKET) /\ TruthyStr(SNS_TOPIC_ARN)

RoleConfigured == TruthyStr(Get(environ, "CROSS_ACCOUNT_ROLE_ARN", PyNone))
MetadataStepDone == pc \in {"RunScanner", "StoreResults"} \/ (pc = "done" /\ CredentialsSucceeded)
Position(op) == CHOOSE i \in 1..Len(trace) : trace[i] = op

\* C17: with a cross-account role configured the assume-role exchange comes
\* first and the metadata call is made only with the credentials it returned;
\* when the exchange fails no metadata call is made and the fetch fails; with
\* no role configured there is no exchange and the ambient client is used.
C17_CrossAccountFetch ==
    MetadataStepDone =>
        /\ RoleConfigured =>
              /\ InTrace("assume_role")
              /\ assumed_role # NoResult
              /\ ~InTrace("get_function:ambient")
              /\ InTrace("get_function:assumed") <=> ~assumed_role.failed
              /\ InTrace("get_function:assumed") =>
                    Position("assume_role") < Position("get_function:assumed")
              /\ assumed_role.failed =>
                    /\ ~MetadataFetched
                    /\ pc = "done" /\ response.statusCode = 500
                    /\ response.error = assumed_role.msg
        /\ ~RoleConfigured =>
              /\ ~InTrace("assume_role")
              /\ assumed_role = NoResult
              /\ InTrace("get_function:ambient")
              /\ ~InTrace("get_function:assumed")

C17_Witness ==
    /\ pc = "done"
    /\ RoleConfigured
    /\ assumed_role # NoResult /\ assumed_role.failed
    /\ trace = <<"get_secret_value", "assume_role">>
    /\ response.error = "AccessDenied"

\* C18: after store_results the S3 write has been attempted exactly when the
\* bucket is configured and the SNS publish exactly when the topic is
\* configured, also when the S3 write failed; the S3 key, the stored document
\* and the notification all carry one and the same timestamp.
C18_IndependentSinks ==
    (pc = "done" /\ ScanSucceeded) =>
        /\ InTrace("put_object") <=> TruthyStr(RESULTS_S3_BUCKET)
        /\ InTrace("publish") <=> TruthyStr(SNS_TOPIC_ARN)
        /\ (S3WriteFailed /\ TruthyStr(SNS_TOPIC_ARN)) => InTrace("publish")
        /\ \A i \in 1..Len(s3_objects) :
              s3_objects[i].Key =
                 "scans/" \o lambda_details["function_name"] \o "/"
                          \o s3_objects[i].Body.scan_timestamp \o ".json"
        /\ \A i \in 1..Len(s3_objects), j \in 1..Len(sns_messages) :
              s3_objects[i].Body.scan_timestamp = sns_messages[j]["scan_timestamp"]

C18_Witness ==
    /\ pc = "done"
    /\ ScanSucceeded
    /\ S3WriteFailed
    /\ Len(sns_messages) = 1
    /\ now > StartTime

\* C19: every invocation of the loaded handler reaches the end, has produced no response before
\* that, ends with a response whose statusCode is 200 or 500, and that
\* response is never replaced.
C19_TerminatesWithOneResponse ==
    /\ (pc = "ResolveTarget") ~> (pc = "done")
    /\ [](pc # "done" => response = NoResponse)
    /\ [](pc = "done" => response.statusCode \in {200, 500})
    /\ [][response # NoResponse => response' = response]_vars

C19_Witness ==
    /\ pc = "done"
    /\ result.kind = "oserror"
    /\ response = [statusCode |-> 500, message |-> "Internal error",
                   error |-> "[Errno 2] No such file or directory: '/opt/qscanner'"]

\* the target was resolved by reconstruction from the function name
ResolvedByName ==
    /\ Has(event, "detail")
    /\ ~(Has(event["detail"], "responseElements")
           /\ TruthyDict(event["detail"]["responseElements"]))
    /\ HasFunctionName
    /\ ResolveSucceeded

\* C20: when the target is reconstructed from the function name, the region
\* inside the identifier is the region handed to the scanner as AWS_REGION,
\* whether or not the event has `region` and the environment has AWS_REGION.
C20_RegionConsistency ==
    ResolvedByName =>
        \A i \in 1..Len(subprocess_calls) :
            function_arn =
               "arn:aws:lambda:" \o subprocess_calls[i].env["AWS_REGION"] \o ":"
                   \o ExpectedAccount \o ":function:" \o FunctionName

====
